---- MODULE Spec2Model ----
(***************************************************************************)
(* Model of this-is-ok: the Option and Result containers with their        *)
(* combinators (the proxy Result, the object Result and the Option), the   *)
(* creation functions (of, from, fromThrowable, sequence) and the          *)
(* do-notation (Do, DoAsync, the overloaded Do, the .do methods and bind). *)
(*                                                                         *)
(* A JavaScript value is a record [t, v, id, items]: t is the type, v the  *)
(* primitive payload written as a string (the message for an Error), id    *)
(* the identity of an object (0 for primitives) and items the elements of  *)
(* an array.  A container is a record [variant, value, error].  A call     *)
(* ends in a completion: [kind |-> "return" | "throw", val].               *)
(***************************************************************************)
EXTENDS Integers, Sequences, FiniteSets, TLC

\* ------------------------------------------------------------------ bounds
\* the number of statements of a do-block before its return statement
MaxStmts == 3
\* the length of the list given to sequence
MaxSeqLen == 3
\* the number of statements of a block that calls Do, before its return
MaxOuter == 2
\* the number of method calls made on one container
MaxCalls == 2

\* ------------------------------------------------------- JavaScript values
JSVal(t, v, id) == [t |-> t, v |-> v, id |-> id, items |-> <<>>]

Num0 == JSVal("number", "0", 0)
Num42 == JSVal("number", "42", 0)
NaNVal == JSVal("number", "NaN", 0)
StrEmpty == JSVal("string", "", 0)
StrError == JSVal("string", "error", 0)
StrBbb == JSVal("string", "bbb", 0)
StrBind == JSVal("string", "bind", 0)
Null == JSVal("null", "null", 0)
Undefined == JSVal("undefined", "undefined", 0)
Obj == JSVal("object", "{}", 1)
Sym == JSVal("symbol", "Symbol(x)", 2)
ErrAaa == JSVal("Error", "aaa", 3)
BoolTrue == JSVal("boolean", "true", 0)
BoolFalse == JSVal("boolean", "false", 0)
\* the identity of an object allocated during a call: no input has it
FreshId == 4

\* the values handed to the library as inputs
Values == {Num0, Num42, NaNVal, StrEmpty, StrError, Null, Undefined, Obj, Sym, ErrAaa}

\* an array literal / the result of Array.prototype.map
Array(elems) == [t |-> "array", v |-> "", id |-> FreshId, items |-> elems]

\* new Error(message)
NewError(message) == JSVal("Error", message, FreshId)
\* the TypeError the engine raises when a Symbol is converted to a string
NewTypeError(message) == JSVal("TypeError", message, FreshId)

\* e instanceof Error
InstanceofError(e) == e.t \in {"Error", "TypeError"}

\* ToBoolean(v), as the conditional operator applies it: a container is an
\* object, and every object is truthy
ToBoolean(v) ==
  \/ "t" \notin DOMAIN v
  \/ ~ \/ v.t \in {"null", "undefined"}
       \/ v.t = "boolean" /\ v.v = "false"
       \/ v.t = "number" /\ v.v \in {"0", "NaN"}
       \/ v.t = "string" /\ v.v = ""

\* s.includes(sub), the test toThrow(sub) makes on the message of an error
Includes(s, sub) ==
  \/ sub = ""
  \/ \E i \in 1..(Len(s) - Len(sub) + 1) : SubSeq(s, i, i + Len(sub) - 1) = sub

\* ------------------------------------------------------------ completions
Return(x) == [kind |-> "return", val |-> x]
Throw(x) == [kind |-> "throw", val |-> x]

\* the template literal `${e}`: ToString(e), which raises on a Symbol
TemplateString(e) ==
  CASE e.t = "symbol" -> Throw(NewTypeError("Cannot convert a Symbol value to a string"))
    [] e.t = "object" -> Return("[object Object]")
    [] e.t = "Error" -> Return("Error: " \o e.v)
    [] e.t = "TypeError" -> Return("TypeError: " \o e.v)
    [] OTHER -> Return(e.v)

\* a function without parameters, as the caller hands it to from and
\* fromThrowable: it returns v or throws v
Thunks == [kind : {"return", "throw"}, val : Values]

\* fn()
Call(fn) == fn

\* ------------------------------------------------------------- containers
NoField == JSVal("absent", "", 0)

ok(value) == [variant |-> "ok", value |-> value, error |-> NoField]
err(error) == [variant |-> "err", value |-> NoField, error |-> error]
some(value) == [variant |-> "some", value |-> value, error |-> NoField]
none == [variant |-> "none", value |-> NoField, error |-> NoField]

isOk(c) == c.variant = "ok"
isErr(c) == c.variant = "err"
isSome(c) == c.variant = "some"
isNone(c) == c.variant = "none"

\* ------------------------------------------------ Result methods (proxy)
\* okHandler: const unwrap = () => value
okHandler_unwrap(c) == Return(c.value)
\* errHandler: const unwrap = () => { throw new Error("called ... : " + error) }
errHandler_unwrap(c) ==
  LET s == TemplateString(c.error)
  IN IF s.kind = "throw" THEN s
     ELSE Throw(NewError("called Result.unwrap() on an Err value: " \o s.val))

\* case "bind": return () => value
okHandler_bind(c) == Return(c.value)
\* a bind that hands back the error instead of raising it
errHandler_bind_returns(c) == Return(c.error)
\* const bind = () => { throw error }
errHandler_bind(c) == Throw(c.error)

\* ------------------------------------------------- Option methods (object)
some_unwrap(c) == Return(c.value)
none_unwrap(c) == Throw(NewError("Error: called .unwrap() on none"))

\* bind: unwrap
some_bind(c) == Return(c.value)
\* a bind that raises what unwrap raises instead of the signal
none_bind_unwraps(c) == none_unwrap(c)
\* bind: () => { throw "bind" }
none_bind(c) == Throw(StrBind)

\* the property lookup c.bind() and c.unwrap() on a container
bind(c) ==
  CASE c.variant = "ok" -> okHandler_bind(c)
    [] c.variant = "err" -> errHandler_bind(c)
    [] c.variant = "some" -> some_bind(c)
    [] c.variant = "none" -> none_bind(c)

unwrap(c) ==
  CASE c.variant = "ok" -> okHandler_unwrap(c)
    [] c.variant = "err" -> errHandler_unwrap(c)
    [] c.variant = "some" -> some_unwrap(c)
    [] c.variant = "none" -> none_unwrap(c)

\* ------------------------------------------------------ creation functions
\* an of that tests the value for truthiness
Result_of_truthy(value, error) ==
  IF value \in {Null, Undefined, Num0, NaNVal, StrEmpty} THEN err(error) ELSE ok(value)
\* result/fns: of(value, error)
Result_of(value, error) ==
  IF value.t = "null" \/ value.t = "undefined" THEN err(error) ELSE ok(value)

\* a from that keeps the value fn raised as the error
Result_from_keepsThrown(fn, error) ==
  LET r == Call(fn)
  IN IF r.kind = "throw" THEN Return(err(r.val)) ELSE Return(Result_of(r.val, error))
\* result/fns: from(fn, error)
Result_from(fn, error) ==
  LET r == Call(fn)
  IN IF r.kind = "throw" THEN Return(err(error)) ELSE Return(Result_of(r.val, error))

\* result/fns: fromThrowable(fn)
fromThrowable(fn) ==
  LET r == Call(fn)
  IN IF r.kind = "return" THEN Return(ok(r.val))
     ELSE IF InstanceofError(r.val) THEN Return(err(r.val))
     ELSE LET s == TemplateString(r.val)
          IN IF s.kind = "throw" THEN s ELSE Return(err(NewError(s.val)))

\* option/fns: of(value)
Option_of(value) ==
  IF value.t = "null" \/ value.t = "undefined" THEN none ELSE some(value)

\* option/fns: from(fn)
Option_from(fn) ==
  LET r == Call(fn)
  IN IF r.kind = "throw" THEN Return(none) ELSE Return(Option_of(r.val))

\* ------------------------------------------------------------- do wrappers
\* what a caller gets back: a value returned or an exception raised
\* synchronously, or a promise that is fulfilled or rejected
Resolve(x) == [kind |-> "resolve", val |-> x]
Reject(x) == [kind |-> "reject", val |-> x]

\* Each wrapper is given r, the completion of its block fn(): for an async
\* block, the settlement of the promise fn() returned.

\* a Do without the catch
Do_rethrows(r) == r
\* a Do that turns a caught non-Error value into a new Error
Do_wrapsNonError(r) ==
  IF r.kind = "throw"
    THEN (IF InstanceofError(r.val) THEN Return(err(r.val))
          ELSE Return(err(NewError(r.val.v))))
    ELSE Return(r.val)
\* result/fns: function Do(fn) { try { return fn() } catch (e) { return err(e) } }
Do(r) == IF r.kind = "throw" THEN Return(err(r.val)) ELSE Return(r.val)

\* a DoAsync without the catch: the promise is rejected with what was raised
DoAsync_rejects(r) == IF r.kind = "throw" THEN Reject(r.val) ELSE Resolve(r.val)
\* result/fns: async function DoAsync(fn) { try { return await fn() } catch (e) { return err(e) } }
DoAsync(r) == IF r.kind = "throw" THEN Resolve(err(r.val)) ELSE Resolve(r.val)

\* result/fns (overloaded): try { return Promise.resolve(fn()).catch((e) => err(e)) }
\*                          catch (e) { return err(e) }
Do_overloaded(async, r) ==
  IF r.kind = "throw"
    THEN IF async THEN Resolve(err(r.val)) ELSE Return(err(r.val))
    ELSE Resolve(r.val)

\* okHandler: case "do": (f) => { try { return f(value) } catch (e) { return err(e) } }
okHandler_do(r) == IF r.kind = "throw" THEN Return(err(r.val)) ELSE Return(r.val)
\* errHandler: case "do": () => err(error)
errHandler_do(c) == Return(err(c.error))

\* a do without the catch: what the block raises reaches the caller
some_do_rethrows(r) == r
\* some: do: (f) => { try { return f(value) } catch (_) { return none } }
some_do(r) == IF r.kind = "throw" THEN Return(none) ELSE Return(r.val)
\* none: do: () => none
none_do(c) == Return(none)

\* option/fns Do: the unwind signal of bind becomes none; any other
\* exception is not the signal and is passed on
Option_Do(r) ==
  IF r.kind = "throw" THEN (IF r.val = StrBind THEN Return(none) ELSE r)
  ELSE Return(r.val)

\* ----------------------------------------------------------- do-blocks
\* A block is the function handed to a wrapper: a sequence of statements,
\* the last one a return.
\*   bind        c.bind() on the container c
\*   bindPrev    of(x).bind(), x the value bound last
\*   effect      a call with a side effect, such as fn()
\*   throw       user code raising v
\*   await       (async blocks) awaiting a promise
\*   return      return c
\*   returnBound return ok([...the bound values]) / some([...])
Stmt(op, c, v) == [op |-> op, c |-> c, v |-> v]

ErrPayloads == {StrError, ErrAaa}
ThrowValues == {ErrAaa}

ResultBody(async) ==
  {Stmt("bind", c, Undefined) : c \in {ok(Num42)} \cup {err(e) : e \in ErrPayloads}}
  \cup {Stmt("bindPrev", none, Undefined), Stmt("effect", none, Undefined)}
  \cup {Stmt("throw", none, v) : v \in ThrowValues}
  \cup (IF async THEN {Stmt("await", none, Undefined)} ELSE {})
ResultReturns ==
  {Stmt("return", ok(Num0), Undefined), Stmt("return", err(StrBbb), Undefined),
   Stmt("returnBound", none, Undefined)}

OptionBody ==
  {Stmt("bind", c, Undefined) : c \in {some(Num42), none}}
  \cup {Stmt("bindPrev", none, Undefined), Stmt("effect", none, Undefined)}
  \cup {Stmt("throw", none, v) : v \in ThrowValues}
OptionReturns ==
  {Stmt("return", some(Num0), Undefined), Stmt("return", none, Undefined),
   Stmt("returnBound", none, Undefined)}

Blocks(body, returns) ==
  UNION {{b \o <<r>> : b \in [1..n -> body], r \in returns} : n \in 0..MaxStmts}
ResultBlocks(async) == Blocks(ResultBody(async), ResultReturns)
OptionBlocks == Blocks(OptionBody, OptionReturns)

\* a sequence that binds the elements from the last to the first
sequence_backwards(results) ==
  [i \in 1..Len(results) |-> Stmt("bind", results[Len(results) + 1 - i], Undefined)]
    \o <<Stmt("returnBound", none, Undefined)>>
\* result/fns sequence: the block () => ok(results.map((r) => r.bind()))
sequence(results) ==
  [i \in 1..Len(results) |-> Stmt("bind", results[i], Undefined)]
    \o <<Stmt("returnBound", none, Undefined)>>
\* the lists handed to sequence
Lists(elems) == UNION {[1..n -> elems] : n \in 0..MaxSeqLen}
ResultLists == Lists({ok(Num42), ok(Undefined), err(StrError), err(ErrAaa)})
OptionLists == Lists({some(Num42), some(Num0), none})

\* ------------------------------------------------------------------ state
VARIABLES
  wrapper,   \* the do wrapper that runs the block, "idle" before any
  async,     \* TRUE when the block is an async function
  block,     \* the statements of the block
  receiver,  \* the container whose .do method was called
  list,      \* the list of containers handed to sequence
  pc,        \* the index of the next statement of the block
  phase,     \* "idle", "running", "suspended" (at an await), "done"
  bound,     \* the values the block has got from bind so far
  log,       \* the indices of the statements executed, in order
  raisedBy,  \* who raised the exception that ended the block: "bind", "user"
  outcome,   \* what the wrapper handed back to its caller
  call       \* the last call of a creation function or of a method of a
             \* container, with its result

vars == <<wrapper, async, block, receiver, list, pc, phase, bound, log, raisedBy, outcome, call>>

NoContainer == [variant |-> "absent", value |-> NoField, error |-> NoField]
NoOutcome == [kind |-> "none", val |-> NoContainer]
NoThunk == [kind |-> "none", val |-> NoField]
NoCall == [op |-> "none", value |-> NoField, error |-> NoField, fn |-> NoThunk, out |-> NoOutcome]

Init ==
  /\ wrapper = "idle" /\ async = FALSE /\ block = <<>> /\ receiver = NoContainer
  /\ list = <<>>
  /\ pc = 1 /\ phase = "idle" /\ bound = <<>> /\ log = <<>>
  /\ raisedBy = "none" /\ outcome = NoOutcome /\ call = NoCall

OptionWrappers == {"Option_Do", "some_do", "none_do", "Option_sequence"}

\* the wrapper's handling of the completion r of its block
Complete(w, a, r) ==
  CASE w = "Do" -> Do(r)
    [] w = "sequence" -> Do(r)
    [] w = "Do_nested" -> Do(r)
    [] w = "DoAsync" -> DoAsync(r)
    [] w = "Do_overloaded" -> Do_overloaded(a, r)
    [] w = "ok_do" -> okHandler_do(r)
    [] w = "some_do" -> some_do(r)
    [] w = "Option_Do" -> Option_Do(r)
    [] w = "Option_sequence" -> Option_Do(r)

LastOf(bnd) == IF bnd = <<>> THEN Undefined ELSE bnd[Len(bnd)]

\* the container a bind or return statement is about, bnd being the values
\* bound before it
StmtContainer(s, bnd, w) ==
  CASE s.op \in {"bind", "return"} -> s.c
    [] s.op = "bindPrev" ->
         IF w \in OptionWrappers THEN Option_of(LastOf(bnd))
         ELSE Result_of(LastOf(bnd), StrBbb)
    [] s.op = "returnBound" ->
         IF w \in OptionWrappers THEN some(Array(bnd)) ELSE ok(Array(bnd))

\* ----------------------------------------------------------- callbacks
\* A function handed to a combinator is a value [name, kind, ...]:
\*   id            v => v
\*   array         v => [v]
\*   const         () => val
\*   raise         () => { throw val }
\*   ok, err, some v => ok(v), v => err(v), v => some(v)
\*   compose       v => g(f(v))
\*   flatMapAfter  v => f(v).flatMap(g), on the containers of lib
\*   rest          v => (the rest of the block from statement i on), with
\*                 the values bound and the statements executed before it
\*   block         v => (the block blk of statements)
\* A call gives a completion and the names of the callbacks invoked, in order.
RECURSIVE Chain(_, _, _)
RECURSIVE Run(_, _, _, _)
RECURSIVE Get(_, _, _, _, _)
RECURSIVE Apply(_, _)

Fn(name, kind, val) == [name |-> name, kind |-> kind, val |-> val]
compose(f, g) == [name |-> "compose", kind |-> "compose", f |-> f, g |-> g]
flatMapAfter(lib, f, g) ==
  [name |-> "flatMapAfter", kind |-> "flatMapAfter", lib |-> lib, f |-> f, g |-> g]

Calls(r, calls) == [kind |-> r.kind, val |-> r.val, calls |-> calls]
CallsOf(r) == IF "calls" \in DOMAIN r THEN r.calls ELSE <<>>

\* the argument that is not given
NoArg == Undefined

\* f(v)
Apply(f, v) ==
  CASE f.kind = "rest" -> Chain(f.i, Append(f.bnd, v), f.lg)
    [] f.kind = "id" -> Calls(Return(v), <<f.name>>)
    [] f.kind = "array" -> Calls(Return(Array(<<v>>)), <<f.name>>)
    [] f.kind = "const" -> Calls(Return(f.val), <<f.name>>)
    [] f.kind = "raise" -> Calls(Throw(f.val), <<f.name>>)
    [] f.kind = "ok" -> Calls(Return(ok(v)), <<f.name>>)
    [] f.kind = "err" -> Calls(Return(err(v)), <<f.name>>)
    [] f.kind = "some" -> Calls(Return(some(v)), <<f.name>>)
    [] f.kind = "compose" ->
         LET r == Apply(f.f, v)
         IN IF r.kind = "throw" THEN r
            ELSE LET t == Apply(f.g, r.val) IN Calls(t, r.calls \o t.calls)
    [] f.kind = "flatMapAfter" ->
         LET r == Apply(f.f, v)
         IN IF r.kind = "throw" THEN r
            ELSE LET t == Get(f.lib, r.val, "flatMap", f.g, NoArg)
                 IN Calls(t, r.calls \o t.calls)

\* the callbacks handed to the combinators: functions to values and to
\* booleans, and functions to containers
ValueFns(name) ==
  {Fn(name, "id", NoArg), Fn(name, "array", NoArg), Fn(name, "const", Num42),
   Fn(name, "const", BoolTrue), Fn(name, "const", BoolFalse), Fn(name, "raise", ErrAaa)}
ResultFns(name) ==
  {Fn(name, "ok", NoArg), Fn(name, "err", NoArg), Fn(name, "const", ok(Num0)),
   Fn(name, "const", err(StrBbb))}
OptionFns(name) ==
  {Fn(name, "some", NoArg), Fn(name, "const", some(Num0)), Fn(name, "const", none)}

\* ------------------------------------------------------------- flatMap
\* const flatMap = (f) => f(value)
okHandler_flatMap(c, f) == Apply(f, c.value)
\* a flatMap that applies f to the error
errHandler_flatMap_applies(c, f) == Apply(f, c.error)
\* case "flatMap": return () => err(error)
errHandler_flatMap(c, f) == Return(err(c.error))
\* some: const flatMap = (f) => f(value)
some_flatMap(c, f) == Apply(f, c.value)
\* none: flatMap: () => none
none_flatMap(c, f) == Return(none)
\* the property lookup c.flatMap(f)
flatMap(c, f) ==
  CASE c.variant = "ok" -> okHandler_flatMap(c, f)
    [] c.variant = "err" -> errHandler_flatMap(c, f)
    [] c.variant = "some" -> some_flatMap(c, f)
    [] c.variant = "none" -> none_flatMap(c, f)

\* the manual chain that a block stands for: every bind is a flatMap whose
\* function is the rest of the block.  The result is the completion of the
\* chain together with the statements it executed.
Chain(i, bnd, lg) ==
  LET s == block[i]
      done == Append(lg, i)
      c == StmtContainer(s, bnd, wrapper)
      rest == [kind |-> "rest", i |-> i + 1, bnd |-> bnd, lg |-> done]
      Traced(r) == [kind |-> r.kind, val |-> r.val, log |-> done]
  IN CASE s.op = "effect" -> Chain(i + 1, bnd, done)
       [] s.op = "throw" -> Traced(Throw(s.v))
       [] s.op \in {"return", "returnBound"} -> Traced(Return(c))
       [] s.op \in {"bind", "bindPrev"} ->
            IF isOk(c) THEN flatMap(c, rest) ELSE Traced(flatMap(c, rest))

\* ------------------------------------------------------------ nested Do
\* fn(): the statements of the block blk from the i-th on, run in one go as
\* a call made by a statement of another block runs them; bnd are the
\* values bound so far
Run(blk, i, bnd, w) ==
  LET s == blk[i]
      c == StmtContainer(s, bnd, w)
  IN CASE s.op = "effect" -> Run(blk, i + 1, bnd, w)
       [] s.op = "throw" -> Throw(s.v)
       [] s.op \in {"return", "returnBound"} -> Return(c)
       [] s.op \in {"bind", "bindPrev"} ->
            LET r == bind(c)
            IN IF r.kind = "return" THEN Run(blk, i + 1, Append(bnd, r.val), w) ELSE r

\* the blocks given to a Do that is called inside another block, by name
InnerNames == {"return", "bindOk", "bindErr", "effect"}
InnerBlock(name) ==
  CASE name = "return" -> <<Stmt("return", ok(Num0), Undefined)>>
    [] name = "bindOk" ->
         <<Stmt("bind", ok(Num42), Undefined), Stmt("return", ok(Num0), Undefined)>>
    [] name = "bindErr" ->
         <<Stmt("bind", err(StrError), Undefined), Stmt("return", ok(Num0), Undefined)>>
    [] name = "effect" ->
         <<Stmt("effect", none, Undefined), Stmt("return", ok(Num0), Undefined)>>

\* the statements of a block that calls Do, v naming the inner block:
\*   do        Do(inner), the Result it returns not being bound
\*   doBind    Do(inner).bind()
\*   okDoBind  ok(42).do(inner).bind()
OuterBody ==
  {Stmt(o, none, JSVal("function", name, 0)) :
     o \in {"do", "doBind", "okDoBind"}, name \in InnerNames}
  \cup {Stmt("effect", none, Undefined)}
NestedBlocks ==
  UNION {{b \o <<r>> : b \in [1..n -> OuterBody], r \in ResultReturns} : n \in 1..MaxOuter}

\* what the Do call of the statement s returns to the block that makes it
InnerDo(s) ==
  IF s.op = "okDoBind"
    THEN okHandler_do(Run(InnerBlock(s.v.v), 1, <<Num42>>, "ok_do"))
    ELSE Do(Run(InnerBlock(s.v.v), 1, <<>>, "Do"))

\* ----------------------------------------------- Result methods (proxy)
\* case "expectErr": (message) => { throw new Error(message) }
okHandler_expectErr(c, message) ==
  LET s == TemplateString(message)
  IN IF s.kind = "throw" THEN s ELSE Throw(NewError(s.val))
\* case "unwrapErr": () => { throw new Error("called ... on an Ok value") }
okHandler_unwrapErr(c) == Throw(NewError("called Result.unwrapErr() on an Ok value"))
\* case "map": (f) => ok(f(value))
okHandler_map(c, f) ==
  LET r == Apply(f, c.value)
  IN IF r.kind = "throw" THEN r ELSE Calls(Return(ok(r.val)), r.calls)

\* okHandler: get: (target, prop) => { switch (prop) ... }, and the call of
\* the function it returns with the arguments a1, a2
okHandler(c, prop, a1, a2) ==
  CASE prop = "variant" -> Return(JSVal("string", "ok", 0))
    [] prop = "value" -> Return(c.value)
    [] prop = "isOk" -> Return(BoolTrue)
    [] prop = "isOkAnd" -> Apply(a1, c.value)
    [] prop = "isErr" -> Return(BoolFalse)
    [] prop = "isErrAnd" -> Return(BoolFalse)
    [] prop = "ok" -> Return(some(c.value))
    [] prop = "err" -> Return(none)
    [] prop \in {"expect", "unwrap", "unwrapOr", "unwrapOrElse"} -> okHandler_unwrap(c)
    [] prop = "expectErr" -> okHandler_expectErr(c, a1)
    [] prop = "unwrapErr" -> okHandler_unwrapErr(c)
    [] prop = "map" -> okHandler_map(c, a1)
    [] prop \in {"mapOr", "mapOrElse"} -> Apply(a2, c.value)
    [] prop = "mapErr" -> Return(ok(c.value))
    [] prop = "and" -> Return(a1)
    [] prop \in {"or", "orElse"} -> Return(ok(c.value))
    [] prop \in {"andThen", "flatMap"} -> okHandler_flatMap(c, a1)
    [] prop = "do" -> LET r == Apply(a1, c.value) IN Calls(okHandler_do(r), r.calls)
    [] prop \in {"bind", "b"} -> okHandler_bind(c)
    [] prop = "match" -> Apply(a1, c.value)
    [] prop = "tap" -> Apply(a1, c.value)

\* an unwrapErr that raises on Err as well
errHandler_unwrapErr_raises(c) == Throw(NewError("called Result.unwrapErr() on an Ok value"))
\* case "unwrapErr": () => error
errHandler_unwrapErr(c) == Return(c.error)
\* a map that applies f to the error
errHandler_map_applies(c, f) ==
  LET r == Apply(f, c.error)
  IN IF r.kind = "throw" THEN r ELSE Calls(Return(err(r.val)), r.calls)
\* case "map": () => err(error)
errHandler_map(c, f) == Return(err(c.error))
\* case "mapOr": (defaultValue, _) => defaultValue
errHandler_mapOr(c, defaultValue, f) == Return(defaultValue)
\* case "mapOrElse": (defaultValueFn, f) => defaultValueFn()
errHandler_mapOrElse(c, defaultValueFn, f) == Apply(defaultValueFn, NoArg)
\* an orElse that raises the error instead of calling f
errHandler_orElse_raises(c, f) == Throw(c.error)
\* case "orElse": (f) => f()
errHandler_orElse(c, f) == Apply(f, NoArg)

\* an err() that discards the error
errHandler_err_none(c) == Return(none)
\* case "err": () => some(error)
errHandler_err(c) == Return(some(c.error))

\* an isOkAnd that applies the predicate to the error
errHandler_isOkAnd_applies(c, f) == Apply(f, c.error)
\* case "isOkAnd": return () => false
errHandler_isOkAnd(c, f) == Return(BoolFalse)
\* a match that gives the error to the ok handler
errHandler_match_ok(c, okFn, errFn) == Apply(okFn, c.error)
\* case "match": return (pattern) => pattern.err(error)
errHandler_match(c, okFn, errFn) == Apply(errFn, c.error)

\* errHandler: get: (target, prop) => { switch (prop) ... }
errHandler(c, prop, a1, a2) ==
  CASE prop = "variant" -> Return(JSVal("string", "err", 0))
    [] prop = "error" -> Return(c.error)
    [] prop = "isOk" -> Return(BoolFalse)
    [] prop = "isOkAnd" -> errHandler_isOkAnd(c, a1)
    [] prop = "isErr" -> Return(BoolTrue)
    [] prop = "isErrAnd" -> Apply(a1, c.error)
    [] prop = "ok" -> Return(none)
    [] prop = "err" -> errHandler_err(c)
    [] prop \in {"expect", "unwrap"} -> errHandler_unwrap(c)
    [] prop \in {"expectErr", "unwrapErr"} -> errHandler_unwrapErr(c)
    [] prop = "unwrapOr" -> Return(a1)
    [] prop = "unwrapOrElse" -> Apply(a1, NoArg)
    [] prop = "map" -> errHandler_map(c, a1)
    [] prop = "mapOr" -> errHandler_mapOr(c, a1, a2)
    [] prop = "mapOrElse" -> errHandler_mapOrElse(c, a1, a2)
    [] prop = "mapErr" ->
         LET r == Apply(a1, c.error)
         IN IF r.kind = "throw" THEN r ELSE Calls(Return(err(r.val)), r.calls)
    [] prop = "and" -> Return(err(c.error))
    [] prop = "or" -> Return(a1)
    [] prop = "orElse" -> errHandler_orElse(c, a1)
    [] prop \in {"andThen", "flatMap"} -> errHandler_flatMap(c, a1)
    [] prop = "do" -> errHandler_do(c)
    [] prop \in {"bind", "b"} -> errHandler_bind(c)
    [] prop = "match" -> errHandler_match(c, a1, a2)
    [] prop = "tap" -> Return(Undefined)

\* ---------------------------------------------- Result methods (object)
\* result.ts: export const ok = (value) => ({ variant: "ok", value, ... }),
\* and the call of the method prop with the arguments a1, a2
Result_ok(c, prop, a1, a2) ==
  CASE prop = "variant" -> Return(JSVal("string", "ok", 0))
    [] prop = "value" -> Return(c.value)
    [] prop = "isOk" -> Return(BoolTrue)
    [] prop = "isOkAnd" -> Apply(a1, c.value)
    [] prop = "isErr" -> Return(BoolFalse)
    [] prop = "isErrAnd" -> Return(BoolFalse)
    [] prop = "ok" -> Return(some(c.value))
    [] prop = "err" -> Return(none)
    [] prop \in {"expect", "unwrap", "unwrapOr", "unwrapOrElse"} -> Return(c.value)
    [] prop = "expectErr" ->
         LET s == TemplateString(a1)
         IN IF s.kind = "throw" THEN s ELSE Throw(NewError(s.val))
    [] prop = "unwrapErr" -> Throw(NewError("called Result.unwrapErr() on an Ok value"))
    [] prop = "map" ->
         LET r == Apply(a1, c.value)
         IN IF r.kind = "throw" THEN r ELSE Calls(Return(ok(r.val)), r.calls)
    [] prop \in {"mapOr", "mapOrElse"} -> Apply(a2, c.value)
    [] prop = "mapErr" -> Return(ok(c.value))
    [] prop = "and" -> Return(a1)
    [] prop \in {"or", "orElse"} -> Return(ok(c.value))
    [] prop \in {"andThen", "flatMap"} -> Apply(a1, c.value)
    [] prop = "do" ->
         LET r == Apply(a1, c.value)
         IN IF r.kind = "throw" THEN Calls(Return(err(r.val)), r.calls) ELSE r
    [] prop \in {"bind", "b"} -> Return(c.value)

\* result.ts, err: mapOr: (defaultValue, f) => f(defaultValue)
Result_err_mapOr(c, defaultValue, f) == Apply(f, defaultValue)
\* result.ts, err: mapOrElse: (defaultValueFn, f) => f(defaultValueFn())
Result_err_mapOrElse(c, defaultValueFn, f) ==
  LET d == Apply(defaultValueFn, NoArg)
  IN IF d.kind = "throw" THEN d
     ELSE LET r == Apply(f, d.val) IN Calls(r, d.calls \o r.calls)
\* result.ts, err: orElse: (f) => ok(f())
Result_err_orElse(c, f) ==
  LET r == Apply(f, NoArg)
  IN IF r.kind = "throw" THEN r ELSE Calls(Return(ok(r.val)), r.calls)

\* result.ts: export const err = (error) => ({ variant: "err", error, ... })
Result_err(c, prop, a1, a2) ==
  CASE prop = "variant" -> Return(JSVal("string", "err", 0))
    [] prop = "error" -> Return(c.error)
    [] prop = "isOk" -> Return(BoolFalse)
    [] prop = "isOkAnd" -> Return(BoolFalse)
    [] prop = "isErr" -> Return(BoolTrue)
    [] prop = "isErrAnd" -> Apply(a1, c.error)
    [] prop = "ok" -> Return(none)
    [] prop = "err" -> Return(some(c.error))
    [] prop \in {"expect", "unwrap"} ->
         LET s == TemplateString(c.error)
         IN IF s.kind = "throw" THEN s
            ELSE Throw(NewError("called Result.unwrap() on an Err value: " \o s.val))
    [] prop \in {"expectErr", "unwrapErr"} -> Return(c.error)
    [] prop = "unwrapOr" -> Return(a1)
    [] prop = "unwrapOrElse" -> Apply(a1, NoArg)
    [] prop = "map" -> Return(err(c.error))
    [] prop = "mapOr" -> Result_err_mapOr(c, a1, a2)
    [] prop = "mapOrElse" -> Result_err_mapOrElse(c, a1, a2)
    [] prop = "mapErr" ->
         LET r == Apply(a1, c.error)
         IN IF r.kind = "throw" THEN r ELSE Calls(Return(err(r.val)), r.calls)
    [] prop = "and" -> Return(err(c.error))
    [] prop = "or" -> Return(a1)
    [] prop = "orElse" -> Result_err_orElse(c, a1)
    [] prop \in {"andThen", "flatMap"} -> Return(err(c.error))
    [] prop = "do" -> Return(err(c.error))
    [] prop \in {"bind", "b"} -> Throw(c.error)

\* ------------------------------------------------- Option methods (object)
\* some: map: (f) => some(f(value))
some_map(c, f) ==
  LET r == Apply(f, c.value)
  IN IF r.kind = "throw" THEN r ELSE Calls(Return(some(r.val)), r.calls)
\* some: and: (b) => b
some_and(c, b) == Return(b)
\* some: or: () => some(value)
some_or(c, b) == Return(some(c.value))

\* a filter that keeps the value whatever the predicate says
some_filter_keeps(c, predicate) ==
  LET r == Apply(predicate, c.value)
  IN IF r.kind = "throw" THEN r ELSE Calls(Return(some(c.value)), r.calls)
\* some: filter: (predicate) => (predicate(value) ? some(value) : none)
some_filter(c, predicate) ==
  LET r == Apply(predicate, c.value)
  IN IF r.kind = "throw" THEN r
     ELSE Calls(Return(IF ToBoolean(r.val) THEN some(c.value) ELSE none), r.calls)
\* an orElse that calls f although the value is there
some_orElse_eager(c, f) ==
  LET r == Apply(f, NoArg)
  IN IF r.kind = "throw" THEN r ELSE Calls(Return(some(c.value)), r.calls)
\* some: orElse: () => some(value)
some_orElse(c, f) == Return(some(c.value))

\* option.ts: export const some = (value) => ({ variant: "some", value, ... })
Option_some(c, prop, a1, a2) ==
  CASE prop = "variant" -> Return(JSVal("string", "some", 0))
    [] prop = "value" -> Return(c.value)
    [] prop = "isSome" -> Return(BoolTrue)
    [] prop = "isSomeAnd" -> Apply(a1, c.value)
    [] prop = "isNone" -> Return(BoolFalse)
    [] prop \in {"expect", "unwrap", "unwrapOr", "unwrapOrElse"} -> some_unwrap(c)
    [] prop = "map" -> some_map(c, a1)
    [] prop \in {"mapOr", "mapOrElse"} -> Apply(a2, c.value)
    [] prop = "and" -> some_and(c, a1)
    [] prop \in {"flatMap", "andThen"} -> some_flatMap(c, a1)
    [] prop = "filter" -> some_filter(c, a1)
    [] prop = "or" -> some_or(c, a1)
    [] prop \in {"okOr", "okOrElse"} -> Return(ok(c.value))
    [] prop = "orElse" -> some_orElse(c, a1)
    [] prop = "tap" -> Apply(a1, c.value)
    [] prop = "match" -> Apply(a1, c.value)
    [] prop = "do" -> LET r == Apply(a1, c.value) IN Calls(some_do(r), r.calls)
    [] prop \in {"bind", "b"} -> some_bind(c)

\* none: expect: (message) => { throw new Error(`Error: ${message}`) }
none_expect(c, message) ==
  LET s == TemplateString(message)
  IN IF s.kind = "throw" THEN s ELSE Throw(NewError("Error: " \o s.val))
\* a map that calls f without a value and wraps what it returns
none_map_wraps(c, f) ==
  LET r == Apply(f, NoArg)
  IN IF r.kind = "throw" THEN r ELSE Calls(Return(some(r.val)), r.calls)
\* none: map: () => none
none_map(c, f) == Return(none)
\* none: and: () => none
none_and(c, b) == Return(none)
\* an or that ignores its argument
none_or_stays(c, b) == Return(none)
\* none: or: (b) => b
none_or(c, b) == Return(b)

\* a tap that calls f without a value
none_tap_applies(c, f) == Apply(f, NoArg)
\* none: tap: (f) => { return undefined }
none_tap(c, f) == Return(Undefined)
\* an okOr that gives Ok of the error
none_okOr_ok(c, error) == Return(ok(error))
\* none: okOr: (error) => err(error)
none_okOr(c, error) == Return(err(error))

\* option.ts: export const none = Object.freeze({ variant: "none", ... })
Option_none(c, prop, a1, a2) ==
  CASE prop = "variant" -> Return(JSVal("string", "none", 0))
    [] prop = "isSome" -> Return(BoolFalse)
    [] prop = "isSomeAnd" -> Return(BoolFalse)
    [] prop = "isNone" -> Return(BoolTrue)
    [] prop = "expect" -> none_expect(c, a1)
    [] prop = "unwrap" -> none_unwrap(c)
    [] prop = "unwrapOr" -> Return(a1)
    [] prop = "unwrapOrElse" -> Apply(a1, NoArg)
    [] prop = "map" -> none_map(c, a1)
    [] prop = "mapOr" -> Return(a1)
    [] prop = "mapOrElse" -> Apply(a1, NoArg)
    [] prop = "and" -> none_and(c, a1)
    [] prop \in {"flatMap", "andThen"} -> none_flatMap(c, a1)
    [] prop = "filter" -> Return(none)
    [] prop = "okOr" -> none_okOr(c, a1)
    [] prop = "okOrElse" ->
         LET r == Apply(a1, NoArg)
         IN IF r.kind = "throw" THEN r ELSE Calls(Return(err(r.val)), r.calls)
    [] prop = "or" -> none_or(c, a1)
    [] prop = "orElse" -> Apply(a1, NoArg)
    [] prop = "tap" -> none_tap(c, a1)
    [] prop = "match" -> Apply(a2, NoArg)
    [] prop = "do" -> none_do(c)
    [] prop \in {"bind", "b"} -> none_bind(c)

\* ------------------------------------------------------ method calls
\* a call that stores what it returned in the receiver
ReceiverAfter_stores(c, prop, out) ==
  IF prop = "tap" /\ out.kind = "return" THEN [c EXCEPT !.value = out.val] ELSE c
\* the receiver after the call c.prop(...) that completed with out: the
\* handlers read target / the closure variables and assign to no field
ReceiverAfter(c, prop, out) == c

\* the three implementations of src/: the proxy Result, the object Result
\* and the object Option
Libs == {"proxy", "object", "option"}

\* c.prop(a1, a2) on a container c of the implementation lib, with the
\* callbacks invoked
Get(lib, c, prop, a1, a2) ==
  LET r == CASE lib # "object" /\ c.variant = "ok" -> okHandler(c, prop, a1, a2)
             [] lib # "object" /\ c.variant = "err" -> errHandler(c, prop, a1, a2)
             [] lib = "object" /\ c.variant = "ok" -> Result_ok(c, prop, a1, a2)
             [] lib = "object" /\ c.variant = "err" -> Result_err(c, prop, a1, a2)
             [] c.variant = "some" -> Option_some(c, prop, a1, a2)
             [] c.variant = "none" -> Option_none(c, prop, a1, a2)
  IN Calls(r, CallsOf(r))

\* the properties both Result implementations have, and those of Option
ResultProps ==
  {"variant", "isOk", "isOkAnd", "isErr", "isErrAnd", "ok", "err", "expect", "unwrap",
   "expectErr", "unwrapErr", "unwrapOr", "unwrapOrElse", "map", "mapOr", "mapOrElse",
   "mapErr", "and", "or", "orElse", "andThen", "flatMap", "do", "bind", "b"}
OptionProps ==
  {"variant", "isSome", "isSomeAnd", "isNone", "expect", "unwrap", "unwrapOr",
   "unwrapOrElse", "map", "mapOr", "mapOrElse", "and", "flatMap", "andThen", "filter",
   "okOr", "okOrElse", "or", "orElse", "tap", "match", "do", "bind", "b"}

\* the arguments the callers give
Msgs == {StrEmpty, StrError, StrBbb}
Fns(lib, name) ==
  ValueFns(name) \cup (IF lib = "option" THEN OptionFns(name) ELSE ResultFns(name))
Others(lib) ==
  IF lib = "option" THEN {some(Num42), some(Num0), none}
  ELSE {ok(Num42), ok(Num0), err(StrError), err(StrBbb)}
Args(lib, prop) ==
  CASE prop \in {"expect", "expectErr"} -> {<<m, NoArg>> : m \in Msgs}
    [] prop \in {"unwrapOr", "okOr"} -> {<<v, NoArg>> : v \in Values}
    [] prop \in {"and", "or"} -> {<<b, NoArg>> : b \in Others(lib)}
    [] prop = "mapOr" -> {<<v, f>> : v \in {Num0, Undefined, Obj}, f \in Fns(lib, "f")}
    [] prop = "mapOrElse" ->
         {<<d, f>> : d \in Fns(lib, "defaultValueFn"), f \in ValueFns("f")}
    [] prop = "match" -> {<<f, g>> : f \in ValueFns("present"), g \in ValueFns("absent")}
    [] prop \in {"isOkAnd", "isErrAnd", "isSomeAnd", "unwrapOrElse", "map", "mapErr",
                 "orElse", "andThen", "flatMap", "filter", "okOrElse", "tap", "do"} ->
         {<<f, NoArg>> : f \in Fns(lib, "f")}
    [] OTHER -> {<<NoArg, NoArg>>}

\* ---------------------------------------------------------------- actions
\* The wrappers and the creation functions keep no state between calls, so
\* a behaviour follows one call from the state before it.
Fresh == phase = "idle" /\ call = NoCall

\* a wrapper is called with a block: the block starts to run
Begin(w, a, blk, rcv, args, lst) ==
  /\ wrapper' = w /\ async' = a /\ block' = blk /\ receiver' = rcv /\ list' = lst
  /\ pc' = 1 /\ phase' = "running" /\ bound' = args /\ log' = <<>>
  /\ raisedBy' = "none" /\ outcome' = NoOutcome /\ call' = NoCall

\* a .do method that does not invoke its block
Skip(w, blk, rcv, out) ==
  /\ wrapper' = w /\ async' = FALSE /\ block' = blk /\ receiver' = rcv /\ list' = <<>>
  /\ pc' = 1 /\ phase' = "done" /\ bound' = <<>> /\ log' = <<>>
  /\ raisedBy' = "none" /\ outcome' = out /\ call' = NoCall

Call_Do ==
  /\ Fresh
  /\ \E blk \in ResultBlocks(FALSE) : Begin("Do", FALSE, blk, NoContainer, <<>>, <<>>)
Call_DoAsync ==
  /\ Fresh
  /\ \E blk \in ResultBlocks(TRUE) : Begin("DoAsync", TRUE, blk, NoContainer, <<>>, <<>>)
Call_Do_overloaded ==
  /\ Fresh
  /\ \E a \in BOOLEAN : \E blk \in ResultBlocks(a) :
       Begin("Do_overloaded", a, blk, NoContainer, <<>>, <<>>)
Call_ok_do ==
  /\ Fresh
  /\ \E blk \in ResultBlocks(FALSE) : Begin("ok_do", FALSE, blk, ok(Num42), <<Num42>>, <<>>)
Call_err_do ==
  /\ Fresh
  /\ \E blk \in ResultBlocks(FALSE) :
       Skip("err_do", blk, err(StrError), errHandler_do(err(StrError)))
Call_Option_Do ==
  /\ Fresh
  /\ \E blk \in OptionBlocks : Begin("Option_Do", FALSE, blk, NoContainer, <<>>, <<>>)
Call_some_do ==
  /\ Fresh
  /\ \E blk \in OptionBlocks : Begin("some_do", FALSE, blk, some(Num42), <<Num42>>, <<>>)
Call_none_do ==
  /\ Fresh
  /\ \E blk \in OptionBlocks : Skip("none_do", blk, none, none_do(none))
Call_Do_nested ==
  /\ Fresh
  /\ \E blk \in NestedBlocks : Begin("Do_nested", FALSE, blk, NoContainer, <<>>, <<>>)
Call_sequence ==
  /\ Fresh
  /\ \E results \in ResultLists : Begin("sequence", FALSE, sequence(results), NoContainer, <<>>, results)
Call_Option_sequence ==
  /\ Fresh
  /\ \E options \in OptionLists :
       Begin("Option_sequence", FALSE, sequence(options), NoContainer, <<>>, options)

\* the block ends with completion r, and the wrapper hands back its outcome
Finish(r, by) ==
  /\ phase' = "done" /\ raisedBy' = by
  /\ outcome' = Complete(wrapper, async, r)
  /\ UNCHANGED <<pc, bound>>

Executing(ops) ==
  /\ phase = "running" /\ pc <= Len(block) /\ block[pc].op \in ops
  /\ log' = Append(log, pc)
  /\ UNCHANGED <<wrapper, async, block, receiver, list, call>>

StepEffect ==
  /\ Executing({"effect"})
  /\ pc' = pc + 1
  /\ UNCHANGED <<phase, bound, raisedBy, outcome>>

StepBind ==
  /\ Executing({"bind", "bindPrev"})
  /\ LET r == bind(StmtContainer(block[pc], bound, wrapper))
     IN IF r.kind = "return"
          THEN /\ bound' = Append(bound, r.val) /\ pc' = pc + 1
               /\ UNCHANGED <<phase, raisedBy, outcome>>
          ELSE Finish(r, "bind")

StepThrow ==
  /\ Executing({"throw"})
  /\ Finish(Throw(block[pc].v), "user")

StepReturn ==
  /\ Executing({"return", "returnBound"})
  /\ Finish(Return(StmtContainer(block[pc], bound, wrapper)), "none")

\* the block calls Do with an inner block, which runs to its end, and binds
\* what Do returned unless the statement leaves it unbound
StepDo ==
  /\ Executing({"do", "doBind", "okDoBind"})
  /\ LET inner == InnerDo(block[pc])
         r == IF inner.kind = "throw" THEN inner
              ELSE IF block[pc].op = "do" THEN Return(Undefined)
              ELSE bind(inner.val)
     IN IF r.kind = "return"
          THEN /\ pc' = pc + 1
               /\ bound' = IF block[pc].op = "do" THEN bound ELSE Append(bound, r.val)
               /\ UNCHANGED <<phase, raisedBy, outcome>>
          ELSE Finish([kind |-> r.kind, val |-> r.val],
                      IF inner.kind = "throw" THEN "user" ELSE "bind")

\* the async block reaches an await and is suspended
StepAwait ==
  /\ Executing({"await"})
  /\ pc' = pc + 1 /\ phase' = "suspended"
  /\ UNCHANGED <<bound, raisedBy, outcome>>

\* the awaited promise is fulfilled and the block goes on
Resume ==
  /\ phase = "suspended"
  /\ phase' = "running"
  /\ UNCHANGED <<wrapper, async, block, receiver, list, pc, bound, log, raisedBy, outcome, call>>

\* a creation function is called
Called(op, value, error, fn, out) ==
  /\ call' = [op |-> op, value |-> value, error |-> error, fn |-> fn, out |-> out]
  /\ wrapper' = "idle" /\ async' = FALSE /\ block' = <<>> /\ receiver' = NoContainer
  /\ list' = <<>>
  /\ pc' = 1 /\ phase' = "idle" /\ bound' = <<>> /\ log' = <<>>
  /\ raisedBy' = "none" /\ outcome' = NoOutcome

Call_Result_of ==
  /\ Fresh
  /\ \E value \in Values, error \in Values :
       Called("Result_of", value, error, NoThunk, Return(Result_of(value, error)))
Call_Option_of ==
  /\ Fresh
  /\ \E value \in Values : Called("Option_of", value, NoField, NoThunk, Return(Option_of(value)))
Call_Result_from ==
  /\ Fresh
  /\ \E fn \in Thunks, error \in Values :
       Called("Result_from", NoField, error, fn, Result_from(fn, error))
Call_Option_from ==
  /\ Fresh
  /\ \E fn \in Thunks : Called("Option_from", NoField, NoField, fn, Option_from(fn))
Call_fromThrowable ==
  /\ Fresh
  /\ \E fn \in Thunks : Called("fromThrowable", NoField, NoField, fn, fromThrowable(fn))

\* a method of a container is called
Invoked(lib, c, prop, a1, a2, out) ==
  /\ call' = [op |-> "method", lib |-> lib, this |-> c, prop |-> prop,
              a1 |-> a1, a2 |-> a2, out |-> out,
              after |-> ReceiverAfter(c, prop, out),
              made |-> IF Fresh THEN c ELSE call.made,
              n |-> IF Fresh THEN 1 ELSE call.n + 1]
  /\ wrapper' = "idle" /\ async' = FALSE /\ block' = <<>> /\ receiver' = NoContainer
  /\ list' = <<>>
  /\ pc' = 1 /\ phase' = "idle" /\ bound' = <<>> /\ log' = <<>>
  /\ raisedBy' = "none" /\ outcome' = NoOutcome

Method(lib, c, props) ==
  \E prop \in props : \E args \in Args(lib, prop) :
    Invoked(lib, c, prop, args[1], args[2], Get(lib, c, prop, args[1], args[2]))

\* the containers a method is called on: one of the new ones, or the one the
\* call before was made on, as that call left it
Instances(lib, variant, new) ==
  IF Fresh THEN new
  ELSE IF /\ call.op = "method" /\ call.n < MaxCalls
          /\ call.lib = lib /\ call.after.variant = variant
       THEN {call.after}
       ELSE {}

Call_okHandler ==
  \E c \in Instances("proxy", "ok", {ok(value) : value \in Values}) :
    Method("proxy", c, ResultProps \cup {"value", "match", "tap"})
Call_errHandler ==
  \E c \in Instances("proxy", "err", {err(error) : error \in Values}) :
    Method("proxy", c, ResultProps \cup {"error", "match", "tap"})
Call_Result_ok ==
  \E c \in Instances("object", "ok", {ok(value) : value \in Values}) :
    Method("object", c, ResultProps \cup {"value"})
Call_Result_err ==
  \E c \in Instances("object", "err", {err(error) : error \in Values}) :
    Method("object", c, ResultProps \cup {"error"})
Call_Option_some ==
  \E c \in Instances("option", "some", {some(value) : value \in Values}) :
    Method("option", c, OptionProps \cup {"value"})
Call_Option_none ==
  \E c \in Instances("option", "none", {none}) :
    Method("option", c, OptionProps)

Next ==
  \/ Call_okHandler \/ Call_errHandler \/ Call_Result_ok \/ Call_Result_err
  \/ Call_Option_some \/ Call_Option_none
  \/ Call_Do \/ Call_DoAsync \/ Call_Do_overloaded
  \/ Call_ok_do \/ Call_err_do
  \/ Call_Option_Do \/ Call_some_do \/ Call_none_do
  \/ Call_sequence \/ Call_Option_sequence
  \/ Call_Do_nested \/ StepDo
  \/ StepEffect \/ StepBind \/ StepThrow \/ StepReturn \/ StepAwait \/ Resume
  \/ Call_Result_of \/ Call_Option_of \/ Call_Result_from \/ Call_Option_from
  \/ Call_fromThrowable

Spec == Init /\ [][Next]_vars

TypeOK ==
  /\ phase \in {"idle", "running", "suspended", "done"}
  /\ pc \in 1..(MaxStmts + MaxSeqLen + 2)
  /\ raisedBy \in {"none", "bind", "user"}

\* ------------------------------------------------------------ properties
\* the statements executed so far are 1, 2, ..., each exactly once
InOrderOnce == log = [i \in 1..Len(log) |-> i]

\* the j-th statement executed was a bind() call on an Err container
BoundErrAt(j) == block[log[j]].op = "bind" /\ isErr(block[log[j]].c)
\* the j-th statement executed was a bind() call on none
BoundNoneAt(j) == block[log[j]].op = "bind" /\ isNone(block[log[j]].c)

\* C1: in Do(block) for Result, once the block has called bind() on an Err
\* container no later statement of the block is executed, every statement
\* before it has been executed exactly once, and Do returns normally.
C1_DoShortCircuits ==
  \A j \in 1..Len(log) :
    (wrapper = "Do" /\ BoundErrAt(j)) =>
      /\ j = Len(log)
      /\ InOrderOnce
      /\ phase = "done"
      /\ outcome.kind = "return"

\* the test "Do": an effect, a bind on Err, an effect that is never reached
C1_Witness ==
  /\ wrapper = "Do" /\ phase = "done" /\ raisedBy = "bind"
  /\ Len(block) = 4 /\ log = <<1, 2>>
  /\ block[1].op = "effect" /\ BoundErrAt(2) /\ block[3].op = "effect"

C3_DoIsFlatMapChain ==
  (wrapper = "Do" /\ phase = "done") =>
    LET chain == Chain(1, <<>>, <<>>)
    IN /\ outcome = [kind |-> chain.kind, val |-> chain.val]
       /\ log = chain.log

\* C3 for the blocks in which user code raises nothing
C3_DoIsFlatMapChainNoThrow ==
  (wrapper = "Do" /\ phase = "done" /\ raisedBy # "user") =>
    LET chain == Chain(1, <<>>, <<>>)
    IN /\ outcome = [kind |-> chain.kind, val |-> chain.val]
       /\ log = chain.log

\* the wrappers of src/ that catch what their block raises
CatchingWrappers == {"Do", "DoAsync", "Do_overloaded", "ok_do", "some_do"}

\* C4: an exception raised by user code inside the block, and not by bind(),
\* is not turned into an Err or None result: the caller sees it raised (or
\* the promise rejected with it).
C4_UserExceptionNotSwallowed ==
  (wrapper \in CatchingWrappers /\ phase = "done" /\ raisedBy = "user") =>
    /\ outcome.kind \in {"throw", "reject"}
    /\ outcome.val = block[log[Len(log)]].v

\* C5: for an async block, once the block (after any number of awaits) has
\* called bind() on Err(e), no later statement runs, every statement before
\* it (the awaited steps included) ran exactly once, and the promise of
\* DoAsync, or of the overloaded Do, is fulfilled with Err(e), never rejected.
C5_AsyncDoShortCircuits ==
  \A j \in 1..Len(log) :
    (wrapper \in {"DoAsync", "Do_overloaded"} /\ async /\ BoundErrAt(j)) =>
      /\ j = Len(log)
      /\ InOrderOnce
      /\ phase = "done"
      /\ outcome = Resolve(err(block[log[j]].c.error))

\* the test "async Do": an await, a bind on Ok, then a bind on Err
C5_Witness ==
  /\ wrapper = "DoAsync" /\ async /\ phase = "done"
  /\ Len(block) = 4 /\ log = <<1, 2, 3>>
  /\ block[1].op = "await" /\ block[2].op = "bind" /\ isOk(block[2].c)
  /\ BoundErrAt(3) /\ outcome = Resolve(err(block[3].c.error))

\* the block has no statement in which user code raises
NoUserThrow == \A i \in 1..Len(block) : block[i].op # "throw"

\* C6: for Option, a do-block (Do(block) or some(v).do(block)) in which
\* bind() is called on none returns None and executes no statement after
\* that bind; when every bind is on a Some the block runs to its end and the
\* Option it returns is the result; none.do(block) returns None and does not
\* invoke block.
C6_OptionDo ==
  /\ \A j \in 1..Len(log) :
       (wrapper \in {"Option_Do", "some_do"} /\ BoundNoneAt(j)) =>
         /\ j = Len(log)
         /\ InOrderOnce
         /\ phase = "done"
         /\ outcome = Return(none)
  /\ (wrapper \in {"Option_Do", "some_do"} /\ phase = "done" /\ raisedBy = "bind") =>
       outcome = Return(none)
  /\ (wrapper \in {"Option_Do", "some_do"} /\ phase = "done" /\ NoUserThrow
        /\ raisedBy # "bind") =>
       /\ log = [i \in 1..Len(block) |-> i]
       /\ outcome = Return(StmtContainer(block[Len(block)], bound, wrapper))
  /\ wrapper = "none_do" => (phase = "done" /\ log = <<>> /\ outcome = Return(none))

\* the test "do" of option.spec: some(1).do with a bind on Some, a bind on
\* none and a statement after it
C6_Witness ==
  /\ wrapper = "some_do" /\ phase = "done" /\ raisedBy = "bind"
  /\ Len(block) = 4 /\ log = <<1, 2>>
  /\ block[1].op = "bind" /\ isSome(block[1].c)
  /\ BoundNoneAt(2) /\ block[3].op = "effect"
  /\ outcome = Return(none)

\* the indices of the absent/Err elements of a list
Failures(l) == {i \in 1..Len(l) : l[i].variant \in {"err", "none"}}
Lowest(S) == CHOOSE i \in S : \A k \in S : i <= k

\* C7: sequence(list) returns Ok/Some of the list of the inner values, in
\* order, when every element is Ok/Some (of the empty list for the empty
\* list); otherwise it returns the absent/Err variant with the error of the
\* lowest-index Err element, and no element after that one is bound.
C7_Sequence ==
  (wrapper \in {"sequence", "Option_sequence"} /\ phase = "done") =>
    LET values == Array([i \in 1..Len(list) |-> list[i].value])
    IN IF Failures(list) = {}
         THEN /\ outcome = Return(IF wrapper = "sequence" THEN ok(values) ELSE some(values))
              /\ log = [i \in 1..Len(block) |-> i]
         ELSE LET k == Lowest(Failures(list))
              IN /\ outcome = Return(IF wrapper = "sequence" THEN err(list[k].error) ELSE none)
                 /\ log = [i \in 1..k |-> i]

\* sequence of a list with an Ok, then two Err elements
C7_Witness ==
  /\ wrapper = "sequence" /\ phase = "done"
  /\ Len(list) = 3 /\ Failures(list) = {2, 3}
  /\ list[2].error # list[3].error
  /\ outcome = Return(err(list[2].error))

\* C8: of(v, e) decides by the two sentinels only: for every v other than
\* null and undefined (0, "", NaN and {} included) it is Some/Ok and unwrap
\* returns v; for null and undefined it is None / Err(e).
C8_OfSentinels ==
  /\ call.op = "Result_of" =>
       IF call.value \in {Null, Undefined}
         THEN call.out = Return(err(call.error))
         ELSE /\ isOk(call.out.val)
              /\ unwrap(call.out.val) = Return(call.value)
  /\ call.op = "Option_of" =>
       IF call.value \in {Null, Undefined}
         THEN call.out = Return(none)
         ELSE /\ isSome(call.out.val)
              /\ unwrap(call.out.val) = Return(call.value)

\* of(0, e): a falsy value that is no sentinel
C8_Witness ==
  /\ call.op = "Result_of" /\ call.value = Num0
  /\ call.out = Return(ok(Num0))

\* C9: from(fn, error) lets no exception of fn through: when fn raises any
\* value, or returns null or undefined, the result is None / Err(error) with
\* the error of the caller; otherwise it is Some/Ok of the value returned.
C9_FromNeverRaises ==
  /\ call.op = "Result_from" =>
       IF call.fn.kind = "throw" \/ call.fn.val \in {Null, Undefined}
         THEN call.out = Return(err(call.error))
         ELSE call.out = Return(ok(call.fn.val))
  /\ call.op = "Option_from" =>
       IF call.fn.kind = "throw" \/ call.fn.val \in {Null, Undefined}
         THEN call.out = Return(none)
         ELSE call.out = Return(some(call.fn.val))

\* from(() => { throw new Error("aaa") }, "error")
C9_Witness ==
  /\ call.op = "Result_from" /\ call.fn = Throw(ErrAaa) /\ call.error = StrError
  /\ call.out = Return(err(StrError))

\* String(t), the string form of a value
StringForm(t) ==
  CASE t.t = "object" -> "[object Object]"
    [] OTHER -> t.v

\* C10: fromThrowable(fn) never raises: when fn returns v the result is
\* Ok(v), null and undefined included; when fn raises an Error instance the
\* result is Err of that instance; when fn raises a value t that is no Error
\* the result is Err of a new Error whose message is the string form of t.
C10_FromThrowable ==
  call.op = "fromThrowable" =>
    /\ call.out.kind = "return"
    /\ call.fn.kind = "return" => call.out.val = ok(call.fn.val)
    /\ (call.fn.kind = "throw" /\ InstanceofError(call.fn.val)) =>
         call.out.val = err(call.fn.val)
    /\ (call.fn.kind = "throw" /\ ~InstanceofError(call.fn.val)) =>
         /\ isErr(call.out.val)
         /\ call.out.val.error.t = "Error"
         /\ call.out.val.error.id = FreshId
         /\ call.out.val.error.v = StringForm(call.fn.val)

\* ------------------------------------------------- combinator properties
\* a is a callback that raises
Raises(a) == "kind" \in DOMAIN a /\ a.kind = "raise"
\* the call is a method call whose callbacks do not raise
QuietMethod == call.op = "method" /\ ~Raises(call.a1) /\ ~Raises(call.a2)

\* the operations documented to raise
UnwrapFamily == {"unwrap", "expect", "unwrapErr", "expectErr", "bind", "b"}
\* the do wrappers of src/
SrcWrappers ==
  {"Do", "DoAsync", "Do_overloaded", "sequence", "ok_do", "err_do", "some_do", "none_do"}

\* C11: with callbacks that do not raise, every combinator other than
\* unwrap, expect, unwrapErr, expectErr and bind/b returns normally on both
\* variants, every creation function returns normally, and so does Do (its
\* promise is fulfilled for an async block).
C11_OnlyUnwrapFamilyRaises ==
  /\ (QuietMethod /\ call.prop \notin UnwrapFamily) => call.out.kind = "return"
  /\ (call.op \in {"Result_of", "Option_of", "Result_from", "Option_from", "fromThrowable"}
        /\ call.fn.kind # "throw") =>
       call.out.kind = "return"
  /\ (wrapper \in SrcWrappers /\ phase = "done" /\ NoUserThrow) =>
       outcome.kind \in {"return", "resolve"}

\* err(Symbol()).orElse(f): f is invoked and what it returns is handed back
C11_Witness ==
  /\ QuietMethod /\ call.lib = "proxy" /\ call.this = err(Sym)
  /\ call.prop = "orElse" /\ call.out.kind = "return" /\ call.out.calls = <<"f">>

\* C12: unwrap() and expect(msg) raise on None/Err and on Some/Ok return
\* exactly the stored value; unwrapErr() and expectErr(msg) raise on Ok and
\* on Err return exactly the stored error.
C12_UnwrapFamily ==
  call.op = "method" =>
    /\ call.prop \in {"unwrap", "expect"} =>
         IF call.this.variant \in {"some", "ok"}
           THEN call.out.kind = "return" /\ call.out.val = call.this.value
           ELSE call.out.kind = "throw"
    /\ call.prop \in {"unwrapErr", "expectErr"} =>
         IF isErr(call.this)
           THEN call.out.kind = "return" /\ call.out.val = call.this.error
           ELSE call.out.kind = "throw"

\* err({}).expectErr("bbb") hands back the very object stored
C12_Witness ==
  /\ call.op = "method" /\ call.lib = "proxy" /\ call.this = err(Obj)
  /\ call.prop = "expectErr" /\ call.a1 = StrBbb
  /\ call.out.kind = "return" /\ call.out.val = Obj

\* C13: expect(msg) called on None or on Err, and expectErr(msg) called on
\* Ok, raise an error whose message carries msg, for every msg and every
\* stored error payload.
C13_ExpectCarriesMsg ==
  (/\ call.op = "method"
   /\ \/ call.prop = "expect" /\ call.this.variant \in {"none", "err"}
      \/ call.prop = "expectErr" /\ isOk(call.this)) =>
    /\ call.out.kind = "throw"
    /\ InstanceofError(call.out.val)
    /\ Includes(call.out.val.v, call.a1.v)

\* C13 for none.expect and ok.expectErr, the cases in which the code uses msg
C13_ExpectCarriesMsgButErr ==
  (/\ call.op = "method"
   /\ \/ call.prop = "expect" /\ isNone(call.this)
      \/ call.prop = "expectErr" /\ isOk(call.this)) =>
    /\ call.out.kind = "throw"
    /\ InstanceofError(call.out.val)
    /\ Includes(call.out.val.v, call.a1.v)

\* C14: bind() and b() called outside a do-block return the stored value
\* on Some/Ok; on Err(e) they raise e itself, and on None they raise the
\* fixed signal "bind"; what they raise is what a do wrapper catches and
\* turns back into the Err / None container.
C14_BindOutsideDo ==
  (call.op = "method" /\ call.prop \in {"bind", "b"}) =>
    LET raised == [kind |-> call.out.kind, val |-> call.out.val]
    IN CASE call.this.variant \in {"some", "ok"} ->
              call.out.kind = "return" /\ call.out.val = call.this.value
         [] isErr(call.this) ->
              /\ raised = Throw(call.this.error)
              /\ Do(raised) = Return(call.this)
         [] isNone(call.this) ->
              /\ raised = Throw(StrBind)
              /\ some_do(raised) = Return(none)

\* none.b() raises the signal
C14_Witness ==
  /\ call.op = "method" /\ call.this = none /\ call.prop = "b"
  /\ call.out.kind = "throw" /\ call.out.val = StrBind

\* what mapOr / mapOrElse are to give for the call recorded
MapOrExpected ==
  IF call.this.variant \in {"some", "ok"} THEN Apply(call.a2, call.this.value)
  ELSE IF call.prop = "mapOr" THEN Calls(Return(call.a1), <<>>)
  ELSE Apply(call.a1, NoArg)

\* C15: on None/Err mapOr(default, fn) returns exactly default and
\* mapOrElse(defaultFn, fn) returns exactly defaultFn(), fn not being
\* applied; on Some/Ok both return fn(value); for Option and for Result.
C15_MapOr ==
  (call.op = "method" /\ call.prop \in {"mapOr", "mapOrElse"}) => call.out = MapOrExpected

\* C15 for the proxy Result and for Option
C15_MapOrButObject ==
  (call.op = "method" /\ call.prop \in {"mapOr", "mapOrElse"} /\ call.lib # "object") =>
    call.out = MapOrExpected

\* what and / or / orElse of a Result are to give for the call recorded
AndOrExpected ==
  CASE call.prop = "and" ->
         Calls(Return(IF isOk(call.this) THEN call.a1 ELSE err(call.this.error)), <<>>)
    [] call.prop = "or" ->
         Calls(Return(IF isOk(call.this) THEN ok(call.this.value) ELSE call.a1), <<>>)
    [] call.prop = "orElse" ->
         IF isOk(call.this) THEN Calls(Return(ok(call.this.value)), <<>>)
         ELSE Apply(call.a1, NoArg)

\* a call of and(y), of or(y), or of orElse(f) with f returning a Result
AndOrCall(libs) ==
  /\ call.op = "method" /\ call.lib \in libs
  /\ \/ call.prop \in {"and", "or"}
     \/ call.prop = "orElse" /\ call.a1 \in ResultFns("f")

\* C16: for Results x, y and f returning a Result, x.and(y) is y when x is
\* Ok and Err(x's error) when x is Err; x.or(y) is Ok(x's value) when x is
\* Ok and y when x is Err; x.orElse(f) is Ok(x's value) when x is Ok and
\* exactly the Result f() returns, not wrapped again, when x is Err.
C16_ResultAndOr == AndOrCall({"proxy", "object"}) => call.out = AndOrExpected

\* C16 for the proxy Result
C16_ResultAndOrProxy == AndOrCall({"proxy"}) => call.out = AndOrExpected

ContainerFns(lib, name) == IF lib = "option" THEN OptionFns(name) ELSE ResultFns(name)

\* C18: flatMap (alias andThen) is associative for both containers: for
\* every container x and functions f, g returning containers,
\* x.flatMap(f).flatMap(g) has the tag and the payload of
\* x.flatMap(v => f(v).flatMap(g)); when x is None/Err no function is
\* invoked, and when f returns None/Err g is not invoked.
C18_FlatMapAssociative ==
  (/\ call.op = "method" /\ call.prop \in {"flatMap", "andThen"}
   /\ call.a1 \in ContainerFns(call.lib, "f")) =>
    \A g \in ContainerFns(call.lib, "g") :
      LET first == call.out
          second == Get(call.lib, first.val, call.prop, g, NoArg)
          nested == Get(call.lib, call.this, call.prop,
                        flatMapAfter(call.lib, call.a1, g), NoArg)
          invoked == first.calls \o second.calls
      IN /\ first.kind = "return" /\ second.kind = "return" /\ nested.kind = "return"
         /\ second.val = nested.val
         /\ invoked = nested.calls
         /\ invoked = IF call.this.variant \in {"none", "err"} THEN <<>>
                      ELSE IF first.val.variant \in {"none", "err"} THEN <<"f">>
                      ELSE <<"f", "g">>

\* ok(42).flatMap(() => err("bbb")): f is invoked and its Err is the result
C18_Witness ==
  /\ call.op = "method" /\ call.lib = "proxy" /\ call.this = ok(Num42)
  /\ call.prop = "flatMap" /\ call.a1 = Fn("f", "const", err(StrBbb))
  /\ call.out = Calls(Return(err(StrBbb)), <<"f">>)

\* C19: map identity law: for every container x (Some, None, Ok or Err),
\* x.map(v => v) has the tag and the payload of x.
C19_MapIdentity ==
  (call.op = "method" /\ call.prop = "map" /\ call.a1.kind = "id") =>
    /\ call.out.kind = "return"
    /\ call.out.val = call.this

\* some({}).map(v => v) is a Some of the same object
C19_Witness ==
  /\ call.op = "method" /\ call.this = some(Obj)
  /\ call.prop = "map" /\ call.a1 = Fn("f", "id", NoArg)
  /\ call.out = Calls(Return(some(Obj)), <<"f">>)

\* C20: map composition law: for every container x and functions f, g,
\* x.map(f).map(g) has the tag and the payload of x.map(v => g(f(v))), and
\* invokes the same functions; on None/Err neither f nor g is invoked and
\* the result is None / Err of the same error.
C20_MapComposition ==
  (call.op = "method" /\ call.prop = "map") =>
    \A g \in Fns(call.lib, "g") :
      LET first == call.out
          second == Get(call.lib, first.val, "map", g, NoArg)
          chained == IF first.kind = "throw" THEN first
                     ELSE Calls(second, first.calls \o second.calls)
          composed == Get(call.lib, call.this, "map", compose(call.a1, g), NoArg)
      IN /\ chained = composed
         /\ call.this.variant \in {"none", "err"} =>
              chained = Calls(Return(call.this), <<>>)

\* ok(42).map(v => [v]) is Ok([42])
C20_Witness ==
  /\ call.op = "method" /\ call.lib = "proxy" /\ call.this = ok(Num42)
  /\ call.prop = "map" /\ call.a1 = Fn("f", "array", NoArg)
  /\ call.out = Calls(Return(ok(Array(<<Num42>>))), <<"f">>)

\* C21: for every Option x and error value e, x.okOr(e).ok() and
\* x.okOrElse(() => e).ok() have the tag and the value of x; on None,
\* okOr(e) is Err carrying exactly e.
C21_OkOrRoundTrip ==
  (/\ call.op = "method" /\ call.lib = "option"
   /\ \/ call.prop = "okOr"
      \/ call.prop = "okOrElse" /\ call.a1.kind = "const") =>
    LET e == IF call.prop = "okOr" THEN call.a1 ELSE call.a1.val
    IN /\ call.out.kind = "return"
       /\ isNone(call.this) => call.out.val = err(e)
       /\ \A lib \in {"proxy", "object"} :
            LET back == Get(lib, call.out.val, "ok", NoArg, NoArg)
            IN back.kind = "return" /\ back.val = call.this

\* none.okOr({}) is Err of that object
C21_Witness ==
  /\ call.op = "method" /\ call.this = none /\ call.prop = "okOr" /\ call.a1 = Obj
  /\ call.out.kind = "return" /\ call.out.val = err(Obj)

\* C22: for every Result r exactly one of r.ok() and r.err() is Some: on
\* Ok(v), ok() is Some(v) and err() is None; on Err(e), ok() is None and
\* err() is Some(e).
C22_OkErrAccessors ==
  (call.op = "method" /\ call.lib \in {"proxy", "object"} /\ call.prop \in {"ok", "err"}) =>
    LET other == Get(call.lib, call.this, IF call.prop = "ok" THEN "err" ELSE "ok",
                     NoArg, NoArg)
        present == IF isOk(call.this) THEN some(call.this.value) ELSE some(call.this.error)
    IN /\ call.out.kind = "return" /\ other.kind = "return"
       /\ isSome(call.out.val) # isSome(other.val)
       /\ call.out.val = (IF isOk(call.this) = (call.prop = "ok") THEN present ELSE none)
       /\ other.val = (IF isOk(call.this) = (call.prop = "ok") THEN none ELSE present)

\* err(undefined).err() is Some(undefined)
C22_Witness ==
  /\ call.op = "method" /\ call.lib = "proxy" /\ call.this = err(Undefined)
  /\ call.prop = "err" /\ call.out.kind = "return" /\ call.out.val = some(Undefined)

\* C23: tap(fn) invokes fn exactly once with the stored value on Some/Ok
\* and returns what fn returned (or raises what fn raised); on None/Err it
\* does not invoke fn and returns undefined; whatever fn does, the container
\* has the same tag and payload after the call as before it.
C23_Tap ==
  (call.op = "method" /\ call.prop = "tap") =>
    /\ call.out = IF call.this.variant \in {"some", "ok"}
                    THEN Apply(call.a1, call.this.value)
                    ELSE Calls(Return(Undefined), <<>>)
    /\ call.after = call.this

\* some({}).tap(v => [v]) returns the array and leaves some({}) as it was
C23_Witness ==
  /\ call.op = "method" /\ call.this = some(Obj)
  /\ call.prop = "tap" /\ call.a1 = Fn("f", "array", NoArg)
  /\ call.out = Calls(Return(Array(<<Obj>>)), <<"f">>)
  /\ call.after = some(Obj)

\* the value of the property prop of the container c
Read(lib, c, prop) == Get(lib, c, prop, NoArg, NoArg).val

SyncDoExpected ==
  IF raisedBy = "bind"
    THEN Return(err(StmtContainer(block[log[Len(log)]], bound, wrapper).error))
  ELSE Return(StmtContainer(block[Len(block)], bound, wrapper))

\* a synchronous block given to one of the wrappers ws has run, user code
\* having raised nothing
SyncDoDone(ws) == wrapper \in ws /\ ~async /\ phase = "done" /\ raisedBy # "user"

\* C25: for a synchronous block, Do returns a Result container
\* synchronously, never a promise, both when the block short-circuits on a
\* failing bind and when it completes; when it completes, what Do returns is
\* the very container the block returned.
C25_SyncDoReturnsContainer ==
  SyncDoDone({"Do", "Do_overloaded"}) => outcome = SyncDoExpected

\* C25 for the Do that is not overloaded
C25_SyncDoReturnsContainerPlain == SyncDoDone({"Do"}) => outcome = SyncDoExpected

\* the errors of the Err containers the block blk binds
FailedBinds(blk) ==
  {blk[i].c.error : i \in {k \in 1..Len(blk) : blk[k].op = "bind" /\ isErr(blk[k].c)}}

\* C26: the unwind is caught by the innermost Do only: when a block calls Do
\* with an inner block in which bind() fails, the inner Do returns the Err
\* as an ordinary value, the outer block goes on after the call, and the
\* outer Do short-circuits only if the outer block itself binds the Err the
\* inner Do returned, which is then what the outer Do returns.
C26_NestedDo ==
  wrapper = "Do_nested" =>
    /\ InOrderOnce
    /\ \A j \in 1..Len(log) :
         LET s == block[log[j]]
             inner == InnerDo(s)
             last == j = Len(log)
         IN s.op \in {"do", "doBind", "okDoBind"} =>
              /\ inner.kind = "return"
              /\ FailedBinds(InnerBlock(s.v.v)) # {} =>
                   inner.val \in {err(e) : e \in FailedBinds(InnerBlock(s.v.v))}
              /\ (s.op = "do" \/ isOk(inner.val)) =>
                   (last => phase = "running" /\ pc = log[j] + 1)
              /\ (s.op # "do" /\ isErr(inner.val)) =>
                   /\ last /\ phase = "done" /\ raisedBy = "bind"
                   /\ outcome = Return(inner.val)
    /\ (phase = "done" /\ raisedBy # "none") =>
         /\ raisedBy = "bind"
         /\ block[log[Len(log)]].op \in {"doBind", "okDoBind"}
         /\ isErr(InnerDo(block[log[Len(log)]]).val)

\* Do(() => { Do(() => { err("error").bind(); return ok(0) }); fn();
\*            return ok(0) }): the outer block runs to its end
C26_Witness ==
  /\ wrapper = "Do_nested" /\ phase = "done" /\ raisedBy = "none"
  /\ Len(block) = 3 /\ log = <<1, 2, 3>>
  /\ block[1].op = "do" /\ block[1].v.v = "bindErr"
  /\ InnerDo(block[1]) = Return(err(StrError))
  /\ block[2].op = "effect" /\ outcome = Return(ok(Num0))

\* the number of invocations of the callback named name among calls
Invocations(calls, name) == Cardinality({i \in 1..Len(calls) : calls[i] = name})

\* C27: the fallback functions are lazy: unwrapOrElse(fn), orElse(fn),
\* okOrElse(errFn) and mapOrElse(defaultFn, f) invoke their fallback exactly
\* once when the receiver is None/Err and not at all when it is Some/Ok.
C27_LazyFallbacks ==
  (/\ call.op = "method"
   /\ call.prop \in {"unwrapOrElse", "orElse", "okOrElse", "mapOrElse"}) =>
    Invocations(call.out.calls, call.a1.name) =
      (IF call.this.variant \in {"none", "err"} THEN 1 ELSE 0)

\* some(42).orElse(() => none) gives some(42) and does not call the function
C27_Witness ==
  /\ call.op = "method" /\ call.this = some(Num42) /\ call.prop = "orElse"
  /\ call.a1 = Fn("f", "const", none)
  /\ call.out = Calls(Return(some(Num42)), <<>>)

\* the stored value of a Some/Ok, the stored error of an Err
Stored(c) == IF c.variant \in {"some", "ok"} THEN c.value ELSE c.error

\* C28: the predicate checks short-circuit on the wrong tag: isSomeAnd(pred)
\* on None, isOkAnd(pred) on Err and isErrAnd(pred) on Ok return false and
\* do not invoke pred; on the matching tag they invoke pred once with the
\* stored value (the stored error for isErrAnd) and return what it returns.
C28_PredicateChecks ==
  (call.op = "method" /\ call.prop \in {"isSomeAnd", "isOkAnd", "isErrAnd"}) =>
    LET matching == call.this.variant = (IF call.prop = "isErrAnd" THEN "err"
                                         ELSE IF call.prop = "isOkAnd" THEN "ok"
                                         ELSE "some")
    IN call.out = IF matching THEN Apply(call.a1, Stored(call.this))
                  ELSE Calls(Return(BoolFalse), <<>>)

\* err("error").isOkAnd(() => true) is false, the predicate not being called
C28_Witness ==
  /\ call.op = "method" /\ call.lib = "proxy" /\ call.this = err(StrError)
  /\ call.prop = "isOkAnd" /\ call.a1 = Fn("f", "const", BoolTrue)
  /\ call.out = Calls(Return(BoolFalse), <<>>)

\* C29: filter(pred) on a Some whose value pred accepts returns an Option
\* equal to the receiver, and None in every other case in which it returns;
\* on None pred is not invoked, on Some it is invoked once.
C29_Filter ==
  (call.op = "method" /\ call.prop = "filter" /\ call.out.kind = "return") =>
    LET accepted == /\ isSome(call.this)
                    /\ ToBoolean(Apply(call.a1, call.this.value).val)
    IN /\ call.out.val = IF accepted THEN call.this ELSE none
       /\ Invocations(call.out.calls, call.a1.name) = IF isSome(call.this) THEN 1 ELSE 0

\* some(42).filter(() => false) is none
C29_Witness ==
  /\ call.op = "method" /\ call.this = some(Num42) /\ call.prop = "filter"
  /\ call.a1 = Fn("f", "const", BoolFalse)
  /\ call.out = Calls(Return(none), <<"f">>)

\* C30: match invokes exactly one handler, chosen by the tag alone, and
\* returns (or raises) what that handler does: some(value) on Some, none() on
\* None, ok(value) on Ok, err(error) on Err; the other handler is not invoked.
C30_Match ==
  (call.op = "method" /\ call.prop = "match") =>
    LET c == call.this
    IN /\ call.out = CASE c.variant \in {"some", "ok"} -> Apply(call.a1, c.value)
                        [] c.variant = "err" -> Apply(call.a2, c.error)
                        [] c.variant = "none" -> Apply(call.a2, NoArg)
       /\ call.out.calls = IF c.variant \in {"some", "ok"} THEN <<call.a1.name>>
                           ELSE <<call.a2.name>>

\* err("error").match({ ok: v => v, err: e => [e] }) is ["error"]
C30_Witness ==
  /\ call.op = "method" /\ call.lib = "proxy" /\ call.this = err(StrError)
  /\ call.prop = "match"
  /\ call.a1 = Fn("present", "id", NoArg) /\ call.a2 = Fn("absent", "array", NoArg)
  /\ call.out = Calls(Return(Array(<<StrError>>)), <<"absent">>)

====
